---- MODULE Spec2Model ----
(***************************************************************************)
(* One run of the CORDIS dashboard script (src/cordis.py): the spreadsheet *)
(* is loaded, normalised, filtered by the sidebar selections, aggregated    *)
(* per project and summarised tab by tab.  Streamlit executes the script    *)
(* top to bottom; an uncaught exception ends the run (pc = "raised").       *)
(*                                                                         *)
(* Representation.                                                         *)
(*  - A text cell that the script parses (dates, amounts, keywords,        *)
(*    geolocation) is a sequence of one-character strings; the blank cell  *)
(*    is the empty sequence.                                               *)
(*  - A categorical cell (status, role, ...) is a string, NA when blank.   *)
(*  - A parsed amount or coordinate is an integer number of hundredths,    *)
(*    NaN when missing; the inputs carry at most two fractional digits.    *)
(*  - A parsed date is the integer yyyymmdd (order preserving), NaT when   *)
(*    missing.                                                             *)
(*  - The tables carry every column the script indexes unconditionally     *)
(*    (id, title, enddate, totalcost_project, ecmaxcontribution, name,     *)
(*    city, categorie_principale, sous_categorie) and every row has an id; *)
(*    startdate, status, role, keywords, geolocation and eccontribution    *)
(*    may be absent; legalbasis, acronym and neteccontribution are absent. *)
(*  - Line 152 of the script is indented deeper than the rest of its      *)
(*    'with tabs[1]' block; the block modelled is lines 152-257.          *)
(***************************************************************************)
EXTENDS Integers, Sequences, FiniteSets, TLC

VARIABLES
    pc,            \* position of the script run
    error,         \* the exception that ended the run, "" when none
    xlsx,          \* the spreadsheet: [headers, rows]
    df,            \* the table read by load_data, then normalised in place
    columns,       \* df.columns
    filters,       \* dimension -> accepted values (the multiselect results)
    df_filtered,   \* rows of df passing the filters
    df_proj,       \* one row per project id
    kpi,           \* the four metrics
    df_year_cat,   \* (startyear, categorie_principale) -> total_funding
    df_count_year, \* startyear -> nb_projets
    df_souscat,    \* (startyear, categorie, sous_categorie) -> total_funding
    df_org,        \* (name, city) -> total
    df_stat,       \* status -> count
    df_role,       \* role -> count
    latlon,        \* per row of df_filtered: [lat, lon]
    df_map,        \* city -> [nb, lat, lon]
    top10,         \* keyword -> count
    df_cat         \* categorie_principale -> count

vars == <<pc, error, xlsx, df, columns, filters, df_filtered, df_proj, kpi,
          df_year_cat, df_count_year, df_souscat, df_org, df_stat, df_role,
          latlon, df_map, top10, df_cat>>

\* ------------------------------------------------------------------ bounds

\* Longest generated table (the section-8 scenario table has three rows and is
\* added on its own).
MaxRows == 2

\* ------------------------------------------------------------- cell values

NaN == 0 - 1
NaT == 0 - 1
NA == "<NA>"
Blank == <<>>

Digits == {"0", "1", "2", "3", "4", "5", "6", "7", "8", "9"}

DigitVal(c) ==
    CASE c = "0" -> 0 [] c = "1" -> 1 [] c = "2" -> 2 [] c = "3" -> 3
      [] c = "4" -> 4 [] c = "5" -> 5 [] c = "6" -> 6 [] c = "7" -> 7
      [] c = "8" -> 8 [] c = "9" -> 9

RECURSIVE DigitsVal(_)
DigitsVal(s) ==
    IF s = <<>> THEN 0
    ELSE DigitsVal(SubSeq(s, 1, Len(s) - 1)) * 10 + DigitVal(s[Len(s)])

\* Series.astype(str): a blank (NaN) cell becomes the text "nan".
AsTypeStr(c) == IF c = Blank THEN <<"n", "a", "n">> ELSE c

\* Series.str.replace(old, new, regex=False) with new = '' or a character.
StrRemove(s, old) == SelectSeq(s, LAMBDA x : x # old)
StrReplace(s, old, new) == [i \in DOMAIN s |-> IF s[i] = old THEN new ELSE s[i]]

\* pd.to_numeric(errors='coerce') on one text cell: digits with at most one
\* decimal point, anything else (the text "nan" included) is NaN.
ToNumeric(s) ==
    LET dots == {i \in DOMAIN s : s[i] = "."}
        p == IF dots = {} THEN Len(s) + 1 ELSE CHOOSE i \in dots : TRUE
        ip == SubSeq(s, 1, p - 1)
        fp == SubSeq(s, p + 1, Len(s))
        f2 == IF Len(fp) = 0 THEN 0
              ELSE IF Len(fp) = 1 THEN DigitVal(fp[1]) * 10
              ELSE DigitVal(fp[1]) * 10 + DigitVal(fp[2])
    IN  IF \/ s = <<>>
           \/ \E i \in DOMAIN s : s[i] \notin Digits \cup {"."}
           \/ Cardinality(dots) > 1
           \/ Len(s) = Cardinality(dots)
        THEN NaN
        ELSE DigitsVal(ip) * 100 + f2

\* The monetary coercion of one cell: '.' removed, ',' replaced by '.', parsed.
Monetary(c) == ToNumeric(StrReplace(StrRemove(AsTypeStr(c), "."), ",", "."))

DaysInMonth(y, m) ==
    IF m \in {4, 6, 9, 11} THEN 30
    ELSE IF m = 2
         THEN (IF (y % 4 = 0 /\ y % 100 # 0) \/ y % 400 = 0 THEN 29 ELSE 28)
         ELSE 31

\* pd.to_datetime(errors='coerce') on one text cell: an ISO date yyyy-mm-dd
\* parses, a blank or any other text of the inputs is NaT.
ToDatetime(s) ==
    IF /\ Len(s) = 10
       /\ s[5] = "-" /\ s[8] = "-"
       /\ \A i \in {1, 2, 3, 4, 6, 7, 9, 10} : s[i] \in Digits
    THEN LET y == DigitsVal(SubSeq(s, 1, 4))
             m == DigitsVal(SubSeq(s, 6, 7))
             d == DigitsVal(SubSeq(s, 9, 10))
         IN  IF m \in 1..12 /\ d \in 1..DaysInMonth(y, m)
             THEN y * 10000 + m * 100 + d
             ELSE NaT
    ELSE NaT

\* Series.dt.year on one cell.
DtYear(d) == IF d = NaT THEN NaN ELSE d \div 10000


\* ------------------------------------------------------------ table helpers

SeqToSet(s) == {s[i] : i \in DOMAIN s}

\* Column c of a table, as a sequence of cells.
Col(rows, c) == [i \in DOMAIN rows |-> rows[i][c]]

\* Series.sum(): missing cells are skipped, the sum of nothing is 0.
RECURSIVE SumSkipNa(_)
SumSkipNa(s) ==
    IF s = <<>> THEN 0
    ELSE SumSkipNa(Tail(s)) + (IF Head(s) = NaN THEN 0 ELSE Head(s))

\* GroupBy 'first': the first non-missing cell, missing when there is none.
First(s, na) ==
    IF \A i \in DOMAIN s : s[i] = na THEN na
    ELSE s[CHOOSE i \in DOMAIN s : s[i] # na /\ \A j \in 1..(i - 1) : s[j] = na]

\* GroupBy 'min' / 'max' on a date column: NaT skipped.
Min(s) ==
    LET v == SeqToSet(s) \ {NaT}
    IN  IF v = {} THEN NaT ELSE CHOOSE x \in v : \A y \in v : x <= y

Max(s) ==
    LET v == SeqToSet(s) \ {NaT}
    IN  IF v = {} THEN NaT ELSE CHOOSE x \in v : \A y \in v : x >= y

\* The elements of a finite set of integers in increasing order (sorted(...),
\* and the key order of groupby).
RECURSIVE Sorted(_)
Sorted(S) ==
    IF S = {} THEN <<>>
    ELSE LET m == CHOOSE x \in S : \A y \in S : x <= y
         IN  <<m>> \o Sorted(S \ {m})

\* DataFrame.drop_duplicates(subset): the first row of each key is kept; keys
\* holds the subset columns of each row.
DropDuplicates(rows, keys) ==
    LET keep == {i \in DOMAIN rows : \A j \in 1..(i - 1) : keys[j] # keys[i]}
        RECURSIVE Pick(_)
        Pick(i) == IF i > Len(rows) THEN <<>>
                   ELSE (IF i \in keep THEN <<rows[i]>> ELSE <<>>) \o Pick(i + 1)
    IN  Pick(1)

\* Series.value_counts(): occurrences of each non-missing value.
ValueCounts(s, na) ==
    [v \in SeqToSet(s) \ {na} |-> Cardinality({i \in DOMAIN s : s[i] = v})]

\* ------------------------------------------------------------------ loading

Header(c) == [text |-> c, upper |-> FALSE, spaces |-> FALSE]
StrStrip(h) == [h EXCEPT !.spaces = FALSE]
StrLower(h) == [h EXCEPT !.upper = FALSE]
Has(cols, c) == Header(c) \in cols

NoError == [type |-> "", line |-> 0]
Raise(t, l) == [type |-> t, line |-> l]

\* df.columns = df.columns.str.strip().str.lower()
Canon(headers) == {StrLower(StrStrip(h)) : h \in headers}

\* load_data(filepath): the sheet is read, the headers are canonicalised.
load_data ==
    /\ pc = "load_data"
    /\ df' = xlsx.rows
    /\ columns' = Canon(xlsx.headers)
    /\ pc' = "pretraitement"
    /\ UNCHANGED <<error, xlsx, filters, df_filtered, df_proj, kpi, df_year_cat,
                   df_count_year, df_souscat, df_org, df_stat, df_role, latlon,
                   df_map, top10, df_cat>>

\* ------------------------------------------------------------ normalisation

\* df[date_col] = pd.to_datetime(df.get(date_col), errors='coerce'): an absent
\* column makes df.get return None, to_datetime(None) is None, and the
\* assignment creates an object column of None (held as NaT here; the dtype is
\* what DatesAreDatetime records).
DateCol(cols, c, cell) == IF Has(cols, c) THEN ToDatetime(cell) ELSE NaT

MoneyCol(cols, c, cell) == IF Has(cols, c) THEN Monetary(cell) ELSE cell

\* The rows after lines 38-39 (the two date columns coerced).
DatesCoerced(rows, cols) ==
    [i \in DOMAIN rows |->
        [rows[i] EXCEPT !.startdate = DateCol(cols, "startdate", @),
                        !.enddate = DateCol(cols, "enddate", @)]]

\* The rows after lines 38-48, dropping the rows with an unparsable cell.
PretraiteDropna(rows, cols) ==
    LET all == [i \in DOMAIN rows |->
                 LET r == rows[i]
                 IN  [id |-> r.id, title |-> r.title,
                      startdate |-> DateCol(cols, "startdate", r.startdate),
                      enddate |-> DateCol(cols, "enddate", r.enddate),
                      startyear |-> DtYear(DateCol(cols, "startdate", r.startdate)),
                      totalcost_project |-> MoneyCol(cols, "totalcost_project", r.totalcost_project),
                      ecmaxcontribution |-> MoneyCol(cols, "ecmaxcontribution", r.ecmaxcontribution),
                      eccontribution |-> MoneyCol(cols, "eccontribution", r.eccontribution),
                      status |-> r.status, role |-> r.role, name |-> r.name,
                      city |-> r.city,
                      categorie_principale |-> r.categorie_principale,
                      sous_categorie |-> r.sous_categorie,
                      keywords |-> r.keywords, geolocation |-> r.geolocation]]
    IN  SelectSeq(all, LAMBDA r : r.startdate # NaT /\ r.ecmaxcontribution # NaN)

\* The rows after lines 38-48: dates coerced, startyear derived, the monetary
\* columns that are present coerced; every other cell is left as read.
Pretraite(rows, cols) ==
    [i \in DOMAIN rows |->
        LET r == rows[i]
        IN  [id |-> r.id, title |-> r.title,
             startdate |-> DateCol(cols, "startdate", r.startdate),
             enddate |-> DateCol(cols, "enddate", r.enddate),
             startyear |-> DtYear(DateCol(cols, "startdate", r.startdate)),
             totalcost_project |-> MoneyCol(cols, "totalcost_project", r.totalcost_project),
             ecmaxcontribution |-> MoneyCol(cols, "ecmaxcontribution", r.ecmaxcontribution),
             eccontribution |-> MoneyCol(cols, "eccontribution", r.eccontribution),
             status |-> r.status, role |-> r.role, name |-> r.name,
             city |-> r.city,
             categorie_principale |-> r.categorie_principale,
             sous_categorie |-> r.sous_categorie,
             keywords |-> r.keywords, geolocation |-> r.geolocation]]

\* Lines 38-48.  df['startdate'].dt.year needs a datetime column: when the
\* sheet has no startdate column the column just created holds None objects
\* and the .dt accessor raises AttributeError.
Pretraitement ==
    /\ pc = "pretraitement"
    /\ IF Has(columns, "startdate")
       THEN /\ df' = Pretraite(df, columns)
            /\ columns' = columns \cup {Header("startdate"), Header("enddate"),
                                        Header("startyear")}
            /\ pc' = "filters"
            /\ error' = error
       ELSE /\ df' = DatesCoerced(df, columns)
            /\ columns' = columns \cup {Header("startdate"), Header("enddate")}
            /\ pc' = "raised"
            /\ error' = Raise("AttributeError", 40)
    /\ UNCHANGED <<xlsx, filters, df_filtered, df_proj, kpi, df_year_cat,
                   df_count_year, df_souscat, df_org, df_stat, df_role, latlon,
                   df_map, top10, df_cat>>

\* ------------------------------------------------------------------ filters

\* The (column, label) pairs of the sidebar loop, in order.
FilterCols == <<"status", "year", "role", "legalbasis", "name", "city",
                "acronym", "categorie_principale", "sous_categorie">>

\* The column a dimension filters on.
KeyOf(k) == IF k = "year" THEN "startyear" ELSE k

\* The marker of a missing cell of a column.
NaOf(c) == IF c = "startyear" THEN NaN ELSE NA

\* Series.dropna().unique(), without the dropna.
UniqueKeepNa(rows, k) == SeqToSet(Col(rows, KeyOf(k)))

\* opts = sorted(df[col].dropna().unique()), as a set.
Opts(rows, k) == SeqToSet(Col(rows, KeyOf(k))) \ {NaOf(KeyOf(k))}

\* The dimensions that get a multiselect: 'year' always, the others when their
\* column is present.
Widgets(cols) ==
    {FilterCols[i] : i \in {j \in DOMAIN FilterCols :
                               FilterCols[j] = "year" \/ Has(cols, FilterCols[j])}}

\* Every result the multiselects can return: per widget a subset of its opts.
RECURSIVE Selections(_, _)
Selections(rows, W) ==
    IF W = {} THEN {<<>>}
    ELSE LET k == CHOOSE x \in W : TRUE
         IN  {(k :> v) @@ f : v \in SUBSET Opts(rows, k),
                              f \in Selections(rows, W \ {k})}

\* Lines 52-70: the sidebar widgets; filters[col] is the user's selection.
Filtres ==
    /\ pc = "filters"
    /\ \E f \in Selections(df, Widgets(columns)) : filters' = f
    /\ pc' = "apply"
    /\ UNCHANGED <<error, xlsx, df, columns, df_filtered, df_proj, kpi,
                   df_year_cat, df_count_year, df_souscat, df_org, df_stat,
                   df_role, latlon, df_map, top10, df_cat>>

\* df_filtered[df_filtered[key].isin(v)]
Isin(rows, key, v) == SelectSeq(rows, LAMBDA r : r[key] \in v)

\* The loop of lines 74-77 from position i of filters.items() (insertion
\* order is the order of FilterCols).
RECURSIVE FilterLoop(_, _, _)
FilterLoop(rows, f, i) ==
    IF i > Len(FilterCols) THEN rows
    ELSE LET k == FilterCols[i]
         IN  IF k \in DOMAIN f /\ f[k] # {}
             THEN FilterLoop(Isin(rows, KeyOf(k), f[k]), f, i + 1)
             ELSE FilterLoop(rows, f, i + 1)

\* Lines 73-77.
ApplyFilters ==
    /\ pc = "apply"
    /\ df_filtered' = FilterLoop(df, filters, 1)
    /\ pc' = "df_proj"
    /\ UNCHANGED <<error, xlsx, df, columns, filters, df_proj, kpi, df_year_cat,
                   df_count_year, df_souscat, df_org, df_stat, df_role, latlon,
                   df_map, top10, df_cat>>


\* -------------------------------------------------------- project aggregation

\* The rows of one project id, in table order.
Group(rows, k) == SelectSeq(rows, LAMBDA r : r.id = k)

\* The named aggregations of lines 83-89 for one id, ecmax summed instead.
ProjRowSum(rows, k) ==
    LET g == Group(rows, k)
    IN  [id |-> k,
         title |-> First(Col(g, "title"), NA),
         totalcost |-> First(Col(g, "totalcost_project"), NaN),
         ecmax |-> SumSkipNa(Col(g, "ecmaxcontribution")),
         startdate |-> Min(Col(g, "startdate")),
         enddate |-> Max(Col(g, "enddate"))]

\* The named aggregations of lines 83-89 for one id.
ProjRow(rows, k) ==
    LET g == Group(rows, k)
    IN  [id |-> k,
         title |-> First(Col(g, "title"), NA),
         totalcost |-> First(Col(g, "totalcost_project"), NaN),
         ecmax |-> First(Col(g, "ecmaxcontribution"), NaN),
         startdate |-> Min(Col(g, "startdate")),
         enddate |-> Max(Col(g, "enddate"))]

\* df_filtered.groupby('id', as_index=False).agg(...): one row per id, in
\* increasing id order.
GroupById(rows) ==
    LET ids == Sorted(SeqToSet(Col(rows, "id")))
    IN  [i \in DOMAIN ids |-> ProjRow(rows, ids[i])]

\* df_proj['startyear'] = df_proj['startdate'].dt.year
WithStartYear(proj) ==
    [i \in DOMAIN proj |->
        [id |-> proj[i].id, title |-> proj[i].title,
         totalcost |-> proj[i].totalcost, ecmax |-> proj[i].ecmax,
         startdate |-> proj[i].startdate, enddate |-> proj[i].enddate,
         startyear |-> DtYear(proj[i].startdate)]]

\* Lines 80-91.
AgregationProjets ==
    /\ pc = "df_proj"
    /\ df_proj' = WithStartYear(GroupById(df_filtered))
    /\ pc' = "kpi"
    /\ UNCHANGED <<error, xlsx, df, columns, filters, df_filtered, kpi,
                   df_year_cat, df_count_year, df_souscat, df_org, df_stat,
                   df_role, latlon, df_map, top10, df_cat>>

\* Lines 95-103: the metrics.  pct_na is kept as the pair (blank keyword
\* cells, rows); the mean of no row is NaN and formats without raising.
KPIs ==
    /\ pc = "kpi"
    /\ kpi' = [nb_projets |-> Cardinality(SeqToSet(Col(df_proj, "title")) \ {NA}),
               financement |-> SumSkipNa(Col(df_proj, "ecmax")),
               cout_total |-> SumSkipNa(Col(df_proj, "totalcost")),
               pct_na |-> IF Has(columns, "keywords")
                          THEN <<Cardinality({i \in DOMAIN df_filtered :
                                                df_filtered[i].keywords = Blank}),
                                 Len(df_filtered)>>
                          ELSE <<>>]
    /\ pc' = "tab0"
    /\ UNCHANGED <<error, xlsx, df, columns, filters, df_filtered, df_proj,
                   df_year_cat, df_count_year, df_souscat, df_org, df_stat,
                   df_role, latlon, df_map, top10, df_cat>>

\* ------------------------------------------------------------------- tabs

\* df_filtered.groupby(['startyear', 'categorie_principale'], as_index=False)
\*            .ecmaxcontribution.sum(): rows with a missing key are dropped.
YearCat(rows) ==
    LET ok == {i \in DOMAIN rows : rows[i].startyear # NaN
                                    /\ rows[i].categorie_principale # NA}
        keys == {<<rows[i].startyear, rows[i].categorie_principale>> : i \in ok}
    IN  [k \in keys |->
            SumSkipNa(Col(SelectSeq(rows,
                LAMBDA r : r.startyear = k[1] /\ r.categorie_principale = k[2]),
                "ecmaxcontribution"))]

\* years = sorted(df_year_cat['startyear'].unique())
Years(yc) == Sorted({k[1] : k \in DOMAIN yc})

\* Lines 121-148.  Both selectboxes accept an empty option list (they return
\* None), df_bar is then empty and the insight is guarded by df_bar.empty:
\* nothing here raises.  y0, y1 and df_bar only feed the chart.
Tab0 ==
    /\ pc = "tab0"
    /\ df_year_cat' = YearCat(df_filtered)
    /\ pc' = "tab1"
    /\ UNCHANGED <<error, xlsx, df, columns, filters, df_filtered, df_proj, kpi,
                   df_count_year, df_souscat, df_org, df_stat, df_role, latlon,
                   df_map, top10, df_cat>>

\* df_proj.groupby('startyear').agg(nb_projets=('id', 'nunique'))
CountYear(proj) ==
    LET ys == SeqToSet(Col(proj, "startyear")) \ {NaN}
    IN  [y \in ys |-> Cardinality({proj[i].id : i \in {j \in DOMAIN proj :
                                                        proj[j].startyear = y}})]

\* groupby(['startyear', 'categorie_principale', 'sous_categorie'])
\*   .agg(total_funding=('ecmaxcontribution', 'sum'))
SousCat(rows) ==
    LET ok == {i \in DOMAIN rows : /\ rows[i].startyear # NaN
                                    /\ rows[i].categorie_principale # NA
                                    /\ rows[i].sous_categorie # NA}
        keys == {<<rows[i].startyear, rows[i].categorie_principale,
                   rows[i].sous_categorie>> : i \in ok}
    IN  [k \in keys |->
            SumSkipNa(Col(SelectSeq(rows,
                LAMBDA r : /\ r.startyear = k[1]
                           /\ r.categorie_principale = k[2]
                           /\ r.sous_categorie = k[3]), "ecmaxcontribution"))]

\* The options a year selectbox returns from: the years, or None (NaN here)
\* when there is none.
YearChoice(ys) == IF ys = <<>> THEN {NaN} ELSE SeqToSet(ys)

\* DataFrame.pivot(index='sous_categorie', columns='startyear') raises
\* ValueError when two selected rows share (sous_categorie, startyear).
PivotDuplicates(sc, l0, l1, cats) ==
    LET sel == {k \in DOMAIN sc : l0 <= k[1] /\ k[1] <= l1 /\ k[2] \in cats}
    IN  \E a \in sel, b \in sel : a # b /\ a[1] = b[1] /\ a[3] = b[3]

\* Lines 151-257.  The project count per year, the category lines between the
\* chosen years l0 and l1 for the chosen categories, and the two growth
\* pivots.  The insight of the count is guarded by df_count_year.empty.
Tab1 ==
    /\ pc = "tab1"
    /\ df_count_year' = CountYear(df_proj)
    /\ df_year_cat' = YearCat(df_filtered)
    /\ df_souscat' = SousCat(df_filtered)
    /\ \E l0 \in YearChoice(Years(YearCat(df_filtered))),
          l1 \in YearChoice(Years(YearCat(df_filtered))),
          cats \in SUBSET {k[2] : k \in DOMAIN YearCat(df_filtered)} :
            IF PivotDuplicates(SousCat(df_filtered), l0, l1, cats)
            THEN pc' = "raised" /\ error' = Raise("ValueError", 253)
            ELSE pc' = "tab2" /\ error' = error
    /\ UNCHANGED <<xlsx, df, columns, filters, df_filtered, df_proj, kpi, df_org,
                   df_stat, df_role, latlon, df_map, top10, df_cat>>

\* df_filtered.groupby(['name', 'city'], as_index=False).ecmaxcontribution.sum()
OrgTotals(rows) ==
    LET ok == {i \in DOMAIN rows : rows[i].name # NA /\ rows[i].city # NA}
        keys == {<<rows[i].name, rows[i].city>> : i \in ok}
    IN  [k \in keys |->
            SumSkipNa(Col(SelectSeq(rows,
                LAMBDA r : r.name = k[1] /\ r.city = k[2]), "ecmaxcontribution"))]

\* Lines 260-269; the insight is guarded by df_org.empty.
Tab2 ==
    /\ pc = "tab2"
    /\ df_org' = OrgTotals(df_filtered)
    /\ pc' = "tab3"
    /\ UNCHANGED <<error, xlsx, df, columns, filters, df_filtered, df_proj, kpi,
                   df_year_cat, df_count_year, df_souscat, df_stat, df_role,
                   latlon, df_map, top10, df_cat>>

\* df_filtered['status'].value_counts(), without the drop_duplicates.
StatusCountsAllRows(rows) == ValueCounts(Col(rows, "status"), NA)

\* df_filtered.drop_duplicates('id')['status'].value_counts()
StatusCounts(rows) == ValueCounts(Col(DropDuplicates(rows, Col(rows, "id")), "status"), NA)

\* Lines 272-279.  top_status = df_stat.nlargest(1, 'count').iloc[0] is not
\* guarded: with no status to count, iloc[0] raises IndexError.
Tab3 ==
    /\ pc = "tab3"
    /\ IF Has(columns, "status")
       THEN /\ df_stat' = StatusCounts(df_filtered)
            /\ IF DOMAIN StatusCounts(df_filtered) = {}
               THEN pc' = "raised" /\ error' = Raise("IndexError", 278)
               ELSE pc' = "tab4" /\ error' = error
       ELSE pc' = "tab4" /\ UNCHANGED <<df_stat, error>>
    /\ UNCHANGED <<xlsx, df, columns, filters, df_filtered, df_proj, kpi,
                   df_year_cat, df_count_year, df_souscat, df_org, df_role,
                   latlon, df_map, top10, df_cat>>

\* df_filtered['role'].value_counts(), without the drop_duplicates.
RoleCountsAllRows(rows) == ValueCounts(Col(rows, "role"), NA)

\* df_filtered.drop_duplicates(['id', 'role'])['role'].value_counts()
RoleCounts(rows) ==
    ValueCounts(Col(DropDuplicates(rows,
        [i \in DOMAIN rows |-> <<rows[i].id, rows[i].role>>]), "role"), NA)

\* Lines 282-288; top_role = df_role.nlargest(1, 'count').iloc[0] is not
\* guarded either.
Tab4 ==
    /\ pc = "tab4"
    /\ IF Has(columns, "role")
       THEN /\ df_role' = RoleCounts(df_filtered)
            /\ IF DOMAIN RoleCounts(df_filtered) = {}
               THEN pc' = "raised" /\ error' = Raise("IndexError", 287)
               ELSE pc' = "tab5" /\ error' = error
       ELSE pc' = "tab5" /\ UNCHANGED <<df_role, error>>
    /\ UNCHANGED <<xlsx, df, columns, filters, df_filtered, df_proj, kpi,
                   df_year_cat, df_count_year, df_souscat, df_org, df_stat,
                   latlon, df_map, top10, df_cat>>


\* Series.str.split on a set of separator characters.
RECURSIVE Split(_, _)
Split(s, seps) ==
    LET at == {i \in DOMAIN s : s[i] \in seps}
    IN  IF at = {} THEN <<s>>
        ELSE LET i == CHOOSE x \in at : \A y \in at : x <= y
             IN  <<SubSeq(s, 1, i - 1)>> \o Split(SubSeq(s, i + 1, Len(s)), seps)

\* Series.str.strip()
RECURSIVE Strip(_)
Strip(s) ==
    IF s # <<>> /\ Head(s) = " " THEN Strip(Tail(s))
    ELSE IF s # <<>> /\ s[Len(s)] = " " THEN Strip(SubSeq(s, 1, Len(s) - 1))
    ELSE s

\* coords = df_filtered['geolocation'].str.split(',', expand=True): one column
\* per fragment of the longest cell; a blank cell gives a row of missing
\* fragments; a table without rows gives no column at all.
CoordsWidth(rows) ==
    LET full == {i \in DOMAIN rows : rows[i].geolocation # Blank}
        lens == {Len(Split(rows[i].geolocation, {","})) : i \in full}
    IN  IF rows = <<>> THEN 0
        ELSE IF full = {} THEN 1
        ELSE CHOOSE n \in lens : \A m \in lens : n >= m

\* pd.to_numeric(coords[j], errors='coerce') for one row.
Coord(cell, j) ==
    IF cell = Blank \/ Len(Split(cell, {","})) < j THEN NaN
    ELSE ToNumeric(Split(cell, {","})[j])

\* dropna(subset=['lat', 'lon']).groupby('city', as_index=False)
\*   .agg(nb=('id', 'nunique'), lat=('lat', 'first'), lon=('lon', 'first'))
MapRollup(rows, ll) ==
    LET ok == {i \in DOMAIN rows : /\ ll[i].lat # NaN /\ ll[i].lon # NaN
                                    /\ rows[i].city # NA}
        of(c) == {i \in ok : rows[i].city = c}
        first(c) == CHOOSE i \in of(c) : \A j \in of(c) : i <= j
    IN  [c \in {rows[i].city : i \in ok} |->
            [nb |-> Cardinality({rows[i].id : i \in of(c)}),
             lat |-> ll[first(c)].lat, lon |-> ll[first(c)].lon]]

\* Lines 291-302.  coords[1] exists only when some cell has a comma; the .str
\* accessor needs a text column; top_city = ....iloc[0] is not guarded.
Tab5 ==
    /\ pc = "tab5"
    /\ IF ~Has(columns, "geolocation")
       THEN pc' = "tab6" /\ UNCHANGED <<latlon, df_map, error>>
       ELSE IF df # <<>> /\ \A i \in DOMAIN df : df[i].geolocation = Blank
       THEN /\ pc' = "raised" /\ error' = Raise("AttributeError", 293)
            /\ UNCHANGED <<latlon, df_map>>
       ELSE IF CoordsWidth(df_filtered) = 0
       THEN /\ pc' = "raised" /\ error' = Raise("KeyError", 294)
            /\ UNCHANGED <<latlon, df_map>>
       ELSE IF CoordsWidth(df_filtered) = 1
       THEN /\ pc' = "raised" /\ error' = Raise("KeyError", 295)
            /\ latlon' = [i \in DOMAIN df_filtered |->
                            [lat |-> Coord(df_filtered[i].geolocation, 1)]]
            /\ UNCHANGED df_map
       ELSE LET ll == [i \in DOMAIN df_filtered |->
                         [lat |-> Coord(df_filtered[i].geolocation, 1),
                          lon |-> Coord(df_filtered[i].geolocation, 2)]]
            IN  /\ latlon' = ll
                /\ df_map' = MapRollup(df_filtered, ll)
                /\ IF DOMAIN MapRollup(df_filtered, ll) = {}
                   THEN pc' = "raised" /\ error' = Raise("IndexError", 301)
                   ELSE pc' = "tab6" /\ error' = error
    /\ UNCHANGED <<xlsx, df, columns, filters, df_filtered, df_proj, kpi,
                   df_year_cat, df_count_year, df_souscat, df_org, df_stat,
                   df_role, top10, df_cat>>

\* head(10) of the two value_counts.
TopN == 10

\* value_counts().head(TopN) of a sequence of values: the TopN most frequent,
\* ties in order of first occurrence; missing values (the set na) not counted.
HeadCounts(s, na) ==
    LET vs == SeqToSet(s) \ na
        n(v) == Cardinality({i \in DOMAIN s : s[i] = v})
        pos(v) == CHOOSE i \in DOMAIN s : s[i] = v /\ \A j \in 1..(i - 1) : s[j] # v
        rank(v) == Cardinality({w \in vs : n(w) > n(v) \/ (n(w) = n(v) /\ pos(w) < pos(v))})
    IN  [v \in {w \in vs : rank(w) < TopN} |-> n(v)]

\* df_filtered['keywords'].dropna().str.split(r'[;,]').explode().str.strip()
RECURSIVE Kws(_)
Kws(rows) ==
    IF rows = <<>> THEN <<>>
    ELSE LET c == Head(rows).keywords
             fr == Split(c, {";", ","})
         IN  (IF c = Blank THEN <<>> ELSE [i \in DOMAIN fr |-> Strip(fr[i])])
             \o Kws(Tail(rows))

\* Lines 305-315.  top10.iloc[0] is not guarded.
Tab6 ==
    /\ pc = "tab6"
    /\ IF Has(columns, "keywords")
       THEN /\ top10' = HeadCounts(Kws(df_filtered), {})
            /\ IF DOMAIN HeadCounts(Kws(df_filtered), {}) = {}
               THEN pc' = "raised" /\ error' = Raise("IndexError", 312)
                    /\ UNCHANGED df_cat
               ELSE /\ pc' = "tab7" /\ error' = error
                    /\ df_cat' = HeadCounts(Col(df_filtered, "categorie_principale"), {NA})
       ELSE /\ pc' = "tab7"
            /\ df_cat' = HeadCounts(Col(df_filtered, "categorie_principale"), {NA})
            /\ UNCHANGED <<top10, error>>
    /\ UNCHANGED <<xlsx, df, columns, filters, df_filtered, df_proj, kpi,
                   df_year_cat, df_count_year, df_souscat, df_org, df_stat,
                   df_role, latlon, df_map>>

\* Lines 318-322: the description of the numeric columns, the active filters
\* and the CSV export read df_filtered and change nothing.
Tab7 ==
    /\ pc = "tab7"
    /\ pc' = "done"
    /\ UNCHANGED <<error, xlsx, df, columns, filters, df_filtered, df_proj, kpi,
                   df_year_cat, df_count_year, df_souscat, df_org, df_stat,
                   df_role, latlon, df_map, top10, df_cat>>

Next ==
    \/ load_data
    \/ Pretraitement
    \/ Filtres
    \/ ApplyFilters
    \/ AgregationProjets
    \/ KPIs
    \/ Tab0
    \/ Tab1
    \/ Tab2
    \/ Tab3
    \/ Tab4
    \/ Tab5
    \/ Tab6
    \/ Tab7


\* ------------------------------------------------------------------ inputs

D2020 == <<"2", "0", "2", "0", "-", "0", "1", "-", "0", "1">>
D2021 == <<"2", "0", "2", "1", "-", "0", "6", "-", "1", "5">>
D2022 == <<"2", "0", "2", "2", "-", "1", "2", "-", "3", "1">>
DBad == <<"2", "0", "2", "1", "-", "0", "2", "-", "3", "0">>
Garbage == <<"x">>
M100 == <<"1", "0", "0", ",", "0", "0">>
M50 == <<"5", "0", ",", "0", "0">>
M500 == <<"5", "0", "0">>
M1234 == <<"1", ".", "2", "3", "4", ",", "5", "0">>
MBad == <<"1", ",", "2", ",", "3">>
Geo == <<"4", "8", ".", "8", "5", ",", "2", ".", "3", "5">>
GeoNone == <<"n", "o", "t", "-", "a", "-", "c", "o", "o", "r", "d">>
GeoHalf == <<"4", "8", ".", "8", "5", ",", "x">>
GeoThree == <<"1", ",", "2", ",", "3">>
Kw == <<"a", "i", ";", " ", "m", "l", ",", "a", "i">>

AllCols == {"id", "title", "startdate", "enddate", "totalcost_project",
            "ecmaxcontribution", "eccontribution", "status", "role", "name",
            "city", "categorie_principale", "sous_categorie", "keywords",
            "geolocation"}

\* The header row of a sheet with the columns cols, written in capitals (u)
\* and padded with spaces (s) or not.
Headers(cols, u, s) == {[text |-> c, upper |-> u, spaces |-> s] : c \in cols}

\* A participant row with every cell filled.
Row0 ==
    [id |-> 1, title |-> "t1", startdate |-> D2020, enddate |-> D2022,
     totalcost_project |-> M1234, ecmaxcontribution |-> M100,
     eccontribution |-> M50, status |-> "ongoing", role |-> "coordinator",
     name |-> "org1", city |-> "paris", categorie_principale |-> "c1",
     sous_categorie |-> "s1", keywords |-> Kw, geolocation |-> Geo]

\* Row0 without organisation and category (blank cells).
RowBare ==
    [Row0 EXCEPT !.name = NA, !.city = NA, !.categorie_principale = NA,
                 !.sous_categorie = NA]

\* The three rows of the end-to-end scenario.
Scenario ==
    << [Row0 EXCEPT !.id = 1, !.role = "coordinator", !.status = "ongoing",
                    !.ecmaxcontribution = M100, !.startdate = D2020],
       [Row0 EXCEPT !.id = 1, !.role = "partner", !.status = "ongoing",
                    !.ecmaxcontribution = M100, !.startdate = D2020],
       [Row0 EXCEPT !.id = 2, !.role = "coordinator", !.status = "closed",
                    !.ecmaxcontribution = M50, !.startdate = D2021,
                    !.title = "t2"] >>

\* The tables of at most MaxRows rows drawn from a set of rows.
Tables(rows) == UNION {[1..n -> rows] : n \in 0..MaxRows}

Sheet(h, r) == [headers |-> h, rows |-> r]

\* Rows that differ in a filter dimension: status, role, or start year.
RowsStatus ==
    {[RowBare EXCEPT !.id = i, !.status = s] :
        i \in {1, 2}, s \in {"ongoing", "closed", NA}}
RowsRole ==
    {[RowBare EXCEPT !.id = i, !.role = r] :
        i \in {1, 2}, r \in {"coordinator", "partner", NA}}
RowsYear ==
    {[RowBare EXCEPT !.startdate = d, !.status = s] :
        d \in {D2020, D2021, Blank}, s \in {"ongoing", "closed"}}

SheetsFiltres ==
    {Sheet(Headers(AllCols, FALSE, FALSE), t) :
        t \in Tables(RowsStatus) \cup Tables(RowsRole) \cup Tables(RowsYear)
              \cup {Scenario}}

\* Rows that differ in what the project aggregation reduces.
RowsAgg ==
    {[RowBare EXCEPT !.id = i, !.title = v[1], !.startdate = v[2],
                     !.enddate = v[3], !.ecmaxcontribution = v[4],
                     !.totalcost_project = v[5], !.eccontribution = v[6],
                     !.categorie_principale = v[7]] :
        i \in {1, 2},
        v \in {<<"t1", D2020, D2022, M100, M1234, M50, "c1">>,
               <<NA, Blank, Blank, Garbage, Blank, Blank, "c1">>,
               <<"t2", D2021, D2021, M50, M500, M100, "c2">>}}

SheetsAgregation ==
    {Sheet(Headers(AllCols \ {"status", "role"}, FALSE, FALSE), t) :
        t \in Tables(RowsAgg)}
    \cup {Sheet(Headers(AllCols, FALSE, FALSE), Scenario)}

\* Rows that differ in the cells the normalisation parses.
RowsRaw ==
    {[RowBare EXCEPT !.id = i, !.startdate = v[1], !.enddate = v[2],
                     !.ecmaxcontribution = v[3], !.totalcost_project = v[4],
                     !.eccontribution = v[5]] :
        i \in {1, 2},
        v \in {<<D2020, D2022, M100, M1234, M500>>,
               <<Garbage, D2021, M1234, MBad, Blank>>,
               <<D2021, DBad, Garbage, M500, M50>>,
               <<Blank, Blank, Blank, Blank, Garbage>>}}

SheetsPretraitement ==
    {Sheet(h, t) :
        h \in {Headers(AllCols \ {"status", "role"}, FALSE, FALSE),
               Headers(AllCols \ {"status", "role"}, TRUE, TRUE),
               Headers(AllCols \ {"status", "role", "startdate"}, FALSE, FALSE),
               Headers(AllCols \ {"status", "role", "eccontribution"}, FALSE, TRUE)},
        t \in Tables(RowsRaw)}
    \cup {Sheet(Headers(AllCols, TRUE, TRUE), Scenario)}

\* Rows that differ in the geolocation cell.
RowsGeo ==
    {[RowBare EXCEPT !.id = i, !.city = c, !.geolocation = g] :
        i \in {1, 2}, c \in {"paris"},
        g \in {Geo, GeoNone, GeoHalf, GeoThree, Blank}}

SheetsCarte ==
    {Sheet(h, t) :
        h \in {Headers(AllCols \ {"status", "role", "keywords"}, FALSE, FALSE),
               Headers(AllCols \ {"status", "role", "geolocation"}, FALSE, FALSE)},
        t \in Tables(RowsGeo)}
    \cup {Sheet(Headers(AllCols, FALSE, FALSE), Scenario)}

\* The state before load_data runs on the sheet x.
Start(x) ==
    /\ pc = "load_data"
    /\ error = NoError
    /\ xlsx = x
    /\ df = <<>>
    /\ columns = {}
    /\ filters = <<>>
    /\ df_filtered = <<>>
    /\ df_proj = <<>>
    /\ kpi = <<>>
    /\ df_year_cat = <<>>
    /\ df_count_year = <<>>
    /\ df_souscat = <<>>
    /\ df_org = <<>>
    /\ df_stat = <<>>
    /\ df_role = <<>>
    /\ latlon = <<>>
    /\ df_map = <<>>
    /\ top10 = <<>>
    /\ df_cat = <<>>

InitFiltres == \E x \in SheetsFiltres : Start(x)
InitAgregation == \E x \in SheetsAgregation : Start(x)
InitPretraitement == \E x \in SheetsPretraitement : Start(x)
InitCarte == \E x \in SheetsCarte : Start(x)
Init == InitFiltres \/ InitAgregation \/ InitPretraitement \/ InitCarte

Spec == Init /\ [][Next]_vars
SpecFiltres == InitFiltres /\ [][Next]_vars
SpecAgregation == InitAgregation /\ [][Next]_vars
SpecPretraitement == InitPretraitement /\ [][Next]_vars
SpecCarte == InitCarte /\ [][Next]_vars


\* ------------------------------------------------------------------ claims

Stages == <<"load_data", "pretraitement", "filters", "apply", "df_proj", "kpi",
            "tab0", "tab1", "tab2", "tab3", "tab4", "tab5", "tab6", "tab7",
            "done">>

\* The first source line of each stage.
FirstLine(st) ==
    CASE st = "load_data" -> 21 [] st = "pretraitement" -> 38
      [] st = "filters" -> 52 [] st = "apply" -> 73 [] st = "df_proj" -> 80
      [] st = "kpi" -> 95 [] st = "tab0" -> 121 [] st = "tab1" -> 151
      [] st = "tab2" -> 260 [] st = "tab3" -> 272 [] st = "tab4" -> 282
      [] st = "tab5" -> 291 [] st = "tab6" -> 305 [] st = "tab7" -> 318
      [] st = "done" -> 323

StageNo(st) == CHOOSE i \in DOMAIN Stages : Stages[i] = st

\* The stage st has run: the script is past it, or raised inside or after it.
Ran(st) ==
    IF pc = "raised" THEN error.line >= FirstLine(st)
    ELSE StageNo(pc) > StageNo(st)

\* The stage st has run to its end without raising.
Completed(st) ==
    IF pc = "raised" THEN error.line >= FirstLine(Stages[StageNo(st) + 1])
    ELSE StageNo(pc) > StageNo(st)

RECURSIVE SumFn(_)
SumFn(f) ==
    IF DOMAIN f = {} THEN 0
    ELSE LET k == CHOOSE x \in DOMAIN f : TRUE
         IN  f[k] + SumFn([x \in DOMAIN f \ {k} |-> f[x]])

NoFilter == \A k \in DOMAIN filters : filters[k] = {}

\* A row passes when, for every dimension with a non-empty accepted set, its
\* cell in the dimension's column is not missing and is in the set.
Passes(r) ==
    \A k \in DOMAIN filters :
        filters[k] # {} =>
            /\ r[KeyOf(k)] # NaOf(KeyOf(k))
            /\ r[KeyOf(k)] \in filters[k]

\* C1: the filtered table is exactly the rows of the normalised table that
\* pass every non-empty dimension (a missing cell never passes), unchanged and
\* in table order; with no selection at all it is the whole table, and with a
\* dimension restricted to values no row carries it is empty.
C1_FilterApplication ==
    Completed("apply") =>
        /\ df_filtered = SelectSeq(df, Passes)
        /\ NoFilter => df_filtered = df
        /\ \A k \in DOMAIN filters :
              (filters[k] # {} /\ filters[k] \cap SeqToSet(Col(df, KeyOf(k))) = {})
                  => df_filtered = <<>>

\* A selection on a dimension in which some row is blank, some row passes and
\* some row is excluded.
C1_Witness ==
    /\ Completed("apply")
    /\ \E k \in DOMAIN filters :
          /\ filters[k] # {}
          /\ \E i \in DOMAIN df : df[i][KeyOf(k)] = NaOf(KeyOf(k))
    /\ df_filtered # <<>>
    /\ Len(df_filtered) < Len(df)

\* Yearly funding as the script computes it: total_funding of df_year_cat
\* summed over the categories of a year.
FundingOfYear(y) ==
    SumFn([k \in {q \in DOMAIN df_year_cat : q[1] = y} |-> df_year_cat[k]])

\* The sum of ecmax over the project rows of a year.
ProjectFundingOfYear(y) ==
    SumSkipNa(Col(SelectSeq(df_proj, LAMBDA p : p.startyear = y), "ecmax"))

\* C2: yearly funding is the sum of ec_max_contribution over the project table
\* grouped by start year: each project counts once, whatever its number of
\* participant rows.
C2_YearlyFundingPerProject ==
    Completed("tab0") =>
        \A y \in SeqToSet(Col(df_proj, "startyear")) \ {NaN} :
            FundingOfYear(y) = ProjectFundingOfYear(y)

\* The filtered rows of project k, as indices of df_filtered.
RowsOf(k) == {i \in DOMAIN df_filtered : df_filtered[i].id = k}

\* The first row of project k whose cell in column c is not the marker na.
FirstFilled(k, c, na) ==
    LET filled == {i \in RowsOf(k) : df_filtered[i][c] # na}
    IN  IF filled = {} THEN na
        ELSE df_filtered[CHOOSE i \in filled : \A j \in filled : i <= j][c]

\* C3: the project table has exactly one row per project id of the filtered
\* rows; title, total cost and ec max contribution are the first non-missing
\* cell of the project's rows, the start date is the earliest and the end date
\* the latest of its dates, and the start year is the year of that start date
\* (missing when the project has no start date).
C3_ProjectAggregation ==
    Completed("df_proj") =>
        /\ {df_proj[i].id : i \in DOMAIN df_proj} = SeqToSet(Col(df_filtered, "id"))
        /\ \A i, j \in DOMAIN df_proj : df_proj[i].id = df_proj[j].id => i = j
        /\ \A i \in DOMAIN df_proj :
              LET p == df_proj[i]
                  starts == {df_filtered[r].startdate : r \in RowsOf(p.id)} \ {NaT}
                  ends == {df_filtered[r].enddate : r \in RowsOf(p.id)} \ {NaT}
              IN  /\ p.title = FirstFilled(p.id, "title", NA)
                  /\ p.totalcost = FirstFilled(p.id, "totalcost_project", NaN)
                  /\ p.ecmax = FirstFilled(p.id, "ecmaxcontribution", NaN)
                  /\ IF starts = {} THEN p.startdate = NaT /\ p.startyear = NaN
                     ELSE /\ p.startdate \in starts
                          /\ \A d \in starts : p.startdate <= d
                          /\ p.startyear = p.startdate \div 10000
                  /\ IF ends = {} THEN p.enddate = NaT
                     ELSE p.enddate \in ends /\ \A d \in ends : p.enddate >= d

\* A project of two rows whose first row has no title, amount or dates, so the
\* reductions take their values from the second row.
C3_Witness ==
    /\ Completed("df_proj")
    /\ \E k \in SeqToSet(Col(df_filtered, "id")) :
          \E i, j \in RowsOf(k) :
              /\ i < j
              /\ df_filtered[i].title = NA /\ df_filtered[j].title # NA
              /\ df_filtered[i].ecmaxcontribution = NaN
              /\ df_filtered[j].ecmaxcontribution # NaN
              /\ df_filtered[j].startdate # NaT

\* C4: every project row carries eccontribution, the sum of the eccontribution
\* cells of the project's filtered rows (missing cells left out).
C4_EcContributionSummed ==
    Completed("df_proj") =>
        \A i \in DOMAIN df_proj :
            /\ "eccontribution" \in DOMAIN df_proj[i]
            /\ df_proj[i].eccontribution =
                  SumSkipNa(Col(Group(df_filtered, df_proj[i].id), "eccontribution"))

\* C5: when the filters exclude every row of a table that has rows, the run
\* does not raise.
C5_EmptyResultNoError ==
    (Completed("apply") /\ df # <<>> /\ df_filtered = <<>>) => pc # "raised"

\* C6: a sheet without a startdate column is normalised without raising; the
\* row count is unchanged and startyear is missing on every row.
C6_NoStartdateColumn ==
    (Ran("pretraitement") /\ ~Has(Canon(xlsx.headers), "startdate")) =>
        /\ Completed("pretraitement")
        /\ Len(df) = Len(xlsx.rows)
        /\ \A i \in DOMAIN df : df[i].startyear = NaN

\* C7: with a geolocation column and at least one filtered row whose cell is
\* not blank, the split does not raise; a cell without a comma gives lat and
\* lon missing (also when no cell has a comma), "48.85,2.35" gives 48.85 and
\* 2.35, and every row keeps its place.
C7_GeolocationSplit ==
    (/\ Ran("tab5") /\ Has(columns, "geolocation")
     /\ \E i \in DOMAIN df_filtered : df_filtered[i].geolocation # Blank) =>
        /\ ~(pc = "raised" /\ error.line \in {293, 294, 295})
        /\ Len(latlon) = Len(df_filtered)
        /\ \A i \in DOMAIN df_filtered :
              /\ df_filtered[i].geolocation = GeoNone
                    => latlon[i].lat = NaN /\ latlon[i].lon = NaN
              /\ df_filtered[i].geolocation = Geo
                    => latlon[i].lat = 4885 /\ latlon[i].lon = 235

\* The columns the normalisation parses, and the others.
DateCols == {"startdate", "enddate"}
MoneyCols == {"totalcost_project", "ecmaxcontribution", "eccontribution"}
PlainCols == AllCols \ (DateCols \cup MoneyCols)

\* C8: from the load on, the table has the rows of the sheet, in order, and
\* every cell outside the parsed columns is as read; once coerced, a parsed
\* cell depends on its own raw cell only, an unparsable cell is missing and a
\* well-formed one keeps its value ("100,00" is 100.00, "1.234,50" is 1234.50,
\* "500" is 500, 2020-01-01 is in 2020).
C8_NormalizationPreservesRows ==
    /\ Ran("load_data") =>
          /\ Len(df) = Len(xlsx.rows)
          /\ \A i \in DOMAIN xlsx.rows :
                \A c \in PlainCols : df[i][c] = xlsx.rows[i][c]
    /\ Ran("pretraitement") =>
          /\ \A i \in DOMAIN xlsx.rows :
                \A c \in {d \in DateCols : Has(Canon(xlsx.headers), d)} :
                    /\ xlsx.rows[i][c] \in {Blank, Garbage, DBad} => df[i][c] = NaT
                    /\ xlsx.rows[i][c] = D2020 => df[i][c] = 20200101
                    /\ xlsx.rows[i][c] = D2021 => df[i][c] = 20210615
          /\ \A i, j \in DOMAIN xlsx.rows :
                \A c \in DateCols :
                    xlsx.rows[i][c] = xlsx.rows[j][c] => df[i][c] = df[j][c]
    /\ Completed("pretraitement") =>
          /\ \A i \in DOMAIN xlsx.rows :
                /\ df[i].startyear = (IF df[i].startdate = NaT THEN NaN
                                      ELSE DigitsVal(SubSeq(xlsx.rows[i].startdate, 1, 4)))
                /\ \A c \in {m \in MoneyCols : Has(columns, m)} :
                      /\ xlsx.rows[i][c] \in {Blank, Garbage, MBad} => df[i][c] = NaN
                      /\ xlsx.rows[i][c] = M100 => df[i][c] = 10000
                      /\ xlsx.rows[i][c] = M1234 => df[i][c] = 123450
                      /\ xlsx.rows[i][c] = M500 => df[i][c] = 50000
                      /\ xlsx.rows[i][c] = M50 => df[i][c] = 5000
          /\ \A i, j \in DOMAIN xlsx.rows :
                \A c \in {m \in MoneyCols : Has(columns, m)} :
                    xlsx.rows[i][c] = xlsx.rows[j][c] => df[i][c] = df[j][c]

\* Two rows, the first with an unparsable start date next to a well-formed
\* amount, the second with a well-formed start date.
C8_Witness ==
    /\ Completed("pretraitement")
    /\ Len(df) >= 2
    /\ xlsx.rows[1].startdate = Garbage /\ df[1].startdate = NaT
    /\ df[1].ecmaxcontribution # NaN
    /\ df[2].startdate # NaT

\* The ids of the filtered rows.
FilteredIds == SeqToSet(Col(df_filtered, "id"))

\* The status of the first filtered row of project k.
StatusOf(k) ==
    df_filtered[CHOOSE i \in RowsOf(k) : \A j \in RowsOf(k) : i <= j].status

\* C9: the status counts take each project once, with the status of its first
\* filtered row: the count of a status is the number of projects having it, and
\* the counts add up to at most the number of projects (scenario without
\* filters: ongoing 1, closed 1).
C9_StatusOncePerProject ==
    (Ran("tab3") /\ Has(columns, "status")) =>
        /\ DOMAIN df_stat = {StatusOf(k) : k \in FilteredIds} \ {NA}
        /\ \A s \in DOMAIN df_stat :
              df_stat[s] = Cardinality({k \in FilteredIds : StatusOf(k) = s})
        /\ SumFn(df_stat) <= Cardinality(FilteredIds)
        /\ (xlsx.rows = Scenario /\ NoFilter)
              => df_stat = ("ongoing" :> 1) @@ ("closed" :> 1)

\* A project with two filtered rows, counted once.
C9_Witness ==
    /\ Ran("tab3") /\ Has(columns, "status")
    /\ \E k \in FilteredIds : Cardinality(RowsOf(k)) >= 2 /\ StatusOf(k) # NA
    /\ SumFn(df_stat) = Cardinality(FilteredIds)
    /\ SumFn(df_stat) < Len(df_filtered)

\* C10: the count of a role is the number of projects with at least one
\* filtered row in that role, so the counts add up to at most the number of
\* distinct (project, role) pairs (scenario without filters: coordinator 2,
\* partner 1).
C10_RolePerProject ==
    (Ran("tab4") /\ Has(columns, "role")) =>
        /\ DOMAIN df_role = SeqToSet(Col(df_filtered, "role")) \ {NA}
        /\ \A r \in DOMAIN df_role :
              df_role[r] = Cardinality({k \in FilteredIds :
                              \E i \in RowsOf(k) : df_filtered[i].role = r})
        /\ SumFn(df_role) <= Cardinality({<<df_filtered[i].id, df_filtered[i].role>> :
                                             i \in DOMAIN df_filtered})
        /\ (xlsx.rows = Scenario /\ NoFilter)
              => df_role = ("coordinator" :> 2) @@ ("partner" :> 1)

\* Two filtered rows of one project in the same role, counted once.
C10_Witness ==
    /\ Ran("tab4") /\ Has(columns, "role")
    /\ \E i, j \in DOMAIN df_filtered :
          /\ i < j
          /\ df_filtered[i].id = df_filtered[j].id
          /\ df_filtered[i].role = df_filtered[j].role
          /\ df_filtered[i].role # NA
          /\ df_role[df_filtered[i].role] = 1

====
